---- MODULE Spec2Model ----
(***************************************************************************)
(* Streaming-analytics dashboard: the dataset loader (data_layer.py), the  *)
(* evidence builder (evidence_builder.py), the dashboard's filter rerun    *)
(* (dashboard.py) and the summarization fallback loop (ai_layer.py).       *)
(*                                                                         *)
(* Numbers.  Watch durations are exact decimals held as integers in        *)
(* thousandths of a minute; a value rounded to 2 decimals is an integer in *)
(* hundredths.  A percentage is an exact rational [num, den] in lowest     *)
(* terms.  Rounding is round-half-even on the exact value; the durations   *)
(* drawn never put a sum or a delta on a half.  A minutes-per-user         *)
(* quotient can fall on a half, where binary floating point decides the    *)
(* last digit; no property below reads that digit.  An optional number is  *)
(* <<>> (None) or <<v>>.                                                   *)
(*                                                                         *)
(* Time.  A timestamp is an integer count of ticks, TicksPerDay ticks to a *)
(* calendar day; a date is the integer day number.                         *)
(*                                                                         *)
(* pandas.  groupby(key) drops the rows whose key is null and yields the   *)
(* groups in ascending key order; nunique() ignores nulls; the DataFrame   *)
(* built from two Series is indexed by the sorted union of their indexes.  *)
(* A missing pct_change of a delta row is None or NaN depending on the     *)
(* dtype pandas gives the column; the model has the one null, None.        *)
(*                                                                         *)
(* Specifications.  Spec: the dashboard over every table load_data can     *)
(* produce within the bounds, rerun under every filter selection.          *)
(* SpecCols: build_evidence called on tables that lack any subset of the   *)
(* optional dimension columns.  SpecAI: the two AI requests of the AI tab, *)
(* one call to the service per step.  SpecFallback: _call_with_fallback   *)
(* called with any list of models, the empty one included.  SpecStore: the *)
(* feedback tab and the review store (feedback_store.py).  SpecDelta:      *)
(* _delta_table applied to every pair of slices within the bounds, under   *)
(* every n and both sort modes.                                            *)
(***************************************************************************)
EXTENDS Integers, Sequences, FiniteSets, TLC

VARIABLES
    final_df,        \* dashboard.py: the cached joined table (sequence of rows)
    columns,         \* the optional dimension columns final_df has
    start_date,      \* sidebar date range, first day
    end_date,        \* sidebar date range, last day
    selected_genre,  \* sidebar genre selector
    filtered_df,     \* the current slice handed to build_evidence
    prev_df,         \* build_evidence's previous-period slice (<<>> before it is derived)
    evidence,        \* the packet build_evidence returned (<<>> when it raised)
    raised,          \* the exception the last build raised, or "none"
    ai_op,           \* ai_layer: the operation running ("none" when idle)
    models,          \* ai_layer: the ordered list of model identifiers of the request
    ai_pc,           \* ai_layer: position of the request: idle, calling, parse, done, failed
    ai_i,            \* _call_with_fallback: index of the next model to try
    attempts,        \* every call made to the service so far in this request: <<model, outcome>>
    last_err,        \* _call_with_fallback: last_err (<<>> is None)
    ai_text,         \* the text _call_with_fallback returned (<<>> before it returns)
    model_used,      \* the identifier _call_with_fallback returned (<<>> before it returns)
    ai_error,        \* the exception the request surfaced to the dashboard (<<>> is none)
    ai_summary,      \* st.session_state.ai_summary (<<>> is None)
    ai_explain,      \* st.session_state.ai_explain (<<>> is None)
    reviews,         \* feedback_store: the rows of table reviews, in insertion order
    utcnow,          \* the clock datetime.utcnow() reads
    saved_args,      \* history: every <<rating, comment>> handed to save_review, in order
    recent_limit,    \* the argument of the last get_recent_reviews call (<<>> before one)
    recent_rows,     \* what the last get_recent_reviews call returned
    dt_cur,          \* _delta_table: argument cur_df
    dt_prev,         \* _delta_table: argument prev_df
    dt_key,          \* _delta_table: argument key
    dt_n,            \* _delta_table: argument n (<<>> before a call)
    dt_abs,          \* _delta_table: argument sort_by_abs
    dt_rows          \* _delta_table: the list returned

ev_vars == <<final_df, columns, start_date, end_date, selected_genre,
             filtered_df, prev_df, evidence, raised>>
ai_vars == <<ai_op, models, ai_pc, ai_i, attempts, last_err, ai_text, model_used,
             ai_error, ai_summary, ai_explain>>
fb_vars == <<reviews, utcnow, saved_args, recent_limit, recent_rows>>
dt_vars == <<dt_cur, dt_prev, dt_key, dt_n, dt_abs, dt_rows>>
vars == <<final_df, columns, start_date, end_date, selected_genre,
          filtered_df, prev_df, evidence, raised,
          ai_op, models, ai_pc, ai_i, attempts, last_err, ai_text, model_used,
          ai_error, ai_summary, ai_explain,
          reviews, utcnow, saved_args, recent_limit, recent_rows,
          dt_cur, dt_prev, dt_key, dt_n, dt_abs, dt_rows>>

----------------------------------------------------------------------------
(* Bounds of the model *)

MaxRows == 2
MaxDay == 2
TicksPerDay == 2
NumUsers == 2

(* Values *)

NULL == "NaN"
NAN == -1
ALL == "All"
None == <<>>
Some(v) == <<v>>
EMPTY == <<>>

Catalog ==
    << [title |-> "T1", genre_primary |-> "Comedy"],
       [title |-> "T2", genre_primary |-> "Drama"] >>
MovieIds == 1..(Len(Catalog) + 1)
Durations == {NAN, 4, 1000, 3000}
Devices == {"tv"}
Countries == {"US"}
UserNames == <<"u1", "u2", "u3", "u4">>
Users == {UserNames[i] : i \in 1..NumUsers}
Dimensions == {"genre_primary", "title", "device_type", "location_country"}

KeyOrder == <<"Comedy", "Drama", "T1", "T2", "US", "tv">>
Rank(k) == CHOOSE i \in 1..Len(KeyOrder) : KeyOrder[i] = k

----------------------------------------------------------------------------
(* Arithmetic *)

Abs(x) == IF x < 0 THEN -x ELSE x
Max(a, b) == IF a >= b THEN a ELSE b

RECURSIVE GCD(_, _)
GCD(a, b) == IF b = 0 THEN a ELSE GCD(b, a % b)

Rat(n, d) ==
    LET g == GCD(Abs(n), d)
    IN  [num |-> n \div g, den |-> d \div g]

RoundDiv(n, d) ==
    LET q == n \div d
        r == n % d
    IN  IF 2 * r < d THEN q
        ELSE IF 2 * r > d THEN q + 1
        ELSE IF q % 2 = 0 THEN q ELSE q + 1

Round2(milli) == RoundDiv(milli, 10)
RoundRat2(q) == Rat(RoundDiv(q.num * 100, q.den), 100)

----------------------------------------------------------------------------
(* data_layer.load_data *)

WatchEvents ==
    [user_id : Users, movie_id : MovieIds,
     watch_date : 0..((MaxDay + 1) * TicksPerDay - 1),
     watch_duration_minutes : Durations,
     device_type : Devices, location_country : Countries]

JoinRow(e) ==
    [user_id |-> e.user_id,
     movie_id |-> e.movie_id,
     watch_date |-> e.watch_date,
     watch_duration_minutes |->
         IF e.watch_duration_minutes = NAN THEN 0 ELSE e.watch_duration_minutes,
     device_type |-> e.device_type,
     location_country |-> e.location_country,
     title |-> IF e.movie_id \in DOMAIN Catalog THEN Catalog[e.movie_id].title ELSE NULL,
     genre_primary |->
         IF e.movie_id \in DOMAIN Catalog THEN Catalog[e.movie_id].genre_primary ELSE NULL]

load_data(watch_df) == [i \in DOMAIN watch_df |-> JoinRow(watch_df[i])]

----------------------------------------------------------------------------
(* Table helpers *)

Day(ts) == ts \div TicksPerDay
ToDatetime(d) == d * TicksPerDay
Str(d) == <<"str", d>>

RECURSIVE Filter(_, _)
Filter(df, keep) ==
    IF df = <<>> THEN <<>>
    ELSE IF keep[1] THEN <<Head(df)>> \o Filter(Tail(df), Tail(keep))
    ELSE Filter(Tail(df), Tail(keep))

RECURSIVE SumMinutes(_)
SumMinutes(df) ==
    IF df = <<>> THEN 0 ELSE Head(df).watch_duration_minutes + SumMinutes(Tail(df))

NUnique(df, col) == Cardinality({df[i][col] : i \in DOMAIN df} \ {NULL})

GroupBySum(df, key) ==
    LET ks == {df[i][key] : i \in DOMAIN df} \ {NULL}
    IN  [k \in ks |-> SumMinutes(Filter(df, [i \in DOMAIN df |-> df[i][key] = k]))]

RECURSIVE SortAscending(_)
SortAscending(f) ==
    IF DOMAIN f = {} THEN <<>>
    ELSE LET low == CHOOSE k \in DOMAIN f :
                        \A j \in DOMAIN f :
                            \/ f[k] < f[j]
                            \/ f[k] = f[j] /\ Rank(k) <= Rank(j)
         IN  <<low>> \o SortAscending([j \in DOMAIN f \ {low} |-> f[j]])

RECURSIVE SortDescending(_)
SortDescending(f) ==
    IF DOMAIN f = {} THEN <<>>
    ELSE LET top == CHOOSE k \in DOMAIN f :
                        \A j \in DOMAIN f :
                            \/ f[k] > f[j]
                            \/ f[k] = f[j] /\ Rank(k) <= Rank(j)
         IN  <<top>> \o SortDescending([j \in DOMAIN f \ {top} |-> f[j]])

FirstN(s, n) == SubSeq(s, 1, IF Len(s) < n THEN Len(s) ELSE n)

----------------------------------------------------------------------------
(* evidence_builder.py *)

TopN == 5
DriverN == 6

\* The result of a call that can raise: the exception's name, or "none" and the value
Raise(e) == [raised |-> e, value |-> EMPTY]
Return(v) == [raised |-> "none", value |-> v]

NoteNoData == "No data available for the selected filters."
NotePrevUnavailable ==
    "Previous period comparison unavailable (no data in the prior time window)."

_safe_pct_change(current, previous) ==
    IF previous.num = 0 THEN None
    ELSE Some(Rat((current.num * previous.den - previous.num * current.den) * 100,
                  current.den * previous.num))

_top_n(df, cols, group_col, n) ==
    IF group_col \notin cols THEN <<>>
    ELSE LET sums == GroupBySum(df, group_col)
             order == FirstN(SortDescending(sums), n)
         IN  [i \in DOMAIN order |->
                 [name |-> order[i], watch_duration_minutes |-> sums[order[i]]]]

_period_aggregates(df, cols) ==
    IF "title" \notin cols THEN Raise("KeyError")
    ELSE Return(
         [total_watch_minutes |-> Round2(SumMinutes(df)),
          active_users |-> NUnique(df, "user_id"),
          titles_watched |-> NUnique(df, "title"),
          top_genres |-> _top_n(df, cols, "genre_primary", TopN),
          top_titles |-> _top_n(df, cols, "title", TopN),
          watch_by_device |-> _top_n(df, cols, "device_type", TopN),
          watch_by_country |-> _top_n(df, cols, "location_country", TopN)])

CombinedInner(cur_df, previous_df, key) ==
    LET cur_series == GroupBySum(cur_df, key)
        prev_series == GroupBySum(previous_df, key)
    IN  [k \in DOMAIN cur_series \cap DOMAIN prev_series |->
            [current |-> cur_series[k], previous |-> prev_series[k],
             delta |-> cur_series[k] - prev_series[k],
             pct_change |-> _safe_pct_change(Rat(cur_series[k], 1), Rat(prev_series[k], 1))]]

CombinedPctOfRounded(cur_df, previous_df, key) ==
    LET cur_series == GroupBySum(cur_df, key)
        prev_series == GroupBySum(previous_df, key)
    IN  [k \in DOMAIN cur_series \cup DOMAIN prev_series |->
            LET c == IF k \in DOMAIN cur_series THEN cur_series[k] ELSE 0
                p == IF k \in DOMAIN prev_series THEN prev_series[k] ELSE 0
            IN  [current |-> c, previous |-> p, delta |-> c - p,
                 pct_change |-> _safe_pct_change(Rat(Round2(c), 1), Rat(Round2(p), 1))]]

\* evidence_builder.py:54-68, the frame before it is sorted, truncated and rounded
Combined(cur_df, previous_df, key) ==
    LET cur_series == GroupBySum(cur_df, key)
        prev_series == GroupBySum(previous_df, key)
    IN  [k \in DOMAIN cur_series \cup DOMAIN prev_series |->
            LET c == IF k \in DOMAIN cur_series THEN cur_series[k] ELSE 0
                p == IF k \in DOMAIN prev_series THEN prev_series[k] ELSE 0
            IN  [current |-> c, previous |-> p, delta |-> c - p,
                 pct_change |-> _safe_pct_change(Rat(c, 1), Rat(p, 1))]]

_delta_table(cur_df, cur_cols, previous_df, prev_cols, key, n, sort_by_abs) ==
    IF key \notin cur_cols \/ key \notin prev_cols THEN <<>>
    ELSE LET combined == Combined(cur_df, previous_df, key)
             sortkey == [k \in DOMAIN combined |->
                            IF sort_by_abs THEN Abs(combined[k].delta)
                            ELSE combined[k].delta]
             order == FirstN(SortDescending(sortkey), n)
         IN  [i \in DOMAIN order |->
                 LET r == combined[order[i]]
                 IN  [name |-> order[i],
                      current |-> Round2(r.current),
                      previous |-> Round2(r.previous),
                      delta |-> Round2(r.delta),
                      pct_change |->
                          IF r.pct_change = None THEN None
                          ELSE Some(RoundRat2(r.pct_change[1]))]]

WindowDaysOffByOne(start, end) == Day(ToDatetime(end) - ToDatetime(start))

\* evidence_builder.py:125-130
WindowDays(start, end) == Day(ToDatetime(end) - ToDatetime(start)) + 1
PrevEndDt(start) == ToDatetime(start) - 1 * TicksPerDay
PrevStartDt(start, end) == PrevEndDt(start) - (WindowDays(start, end) - 1) * TicksPerDay

\* evidence_builder.py:132-135
PrevWindowSlice(full_df, start, end) ==
    Filter(full_df, [i \in DOMAIN full_df |->
        /\ full_df[i].watch_date >= PrevStartDt(start, end)
        /\ full_df[i].watch_date <= PrevEndDt(start)])

GenreSliceKeepsNull(df, genre) ==
    Filter(df, [i \in DOMAIN df |->
        df[i].genre_primary = genre \/ df[i].genre_primary = NULL])

GenreSlice(df, genre) ==
    Filter(df, [i \in DOMAIN df |-> df[i].genre_primary = genre])

PreviousWindow(start, end) ==
    [start_date |-> Str(Day(PrevStartDt(start, end))),
     end_date |-> Str(Day(PrevEndDt(start))),
     days |-> WindowDays(start, end)]

Packet(start, end, genre, cur, prev, changes, note) ==
    [filters |-> [start_date |-> Str(start), end_date |-> Str(end), genre |-> genre],
     current_period |-> cur,
     previous_period |-> prev,
     changes |-> changes,
     note |-> note]

Returned(packet, prev) == [packet |-> packet, prev_df |-> prev, raised |-> "none"]
Raised(prev) == [packet |-> EMPTY, prev_df |-> prev, raised |-> "KeyError"]

DegradedChangesZeroPct(start, end, current) ==
    [total_watch_minutes_pct_change |-> Some(Rat(0, 1)),
     active_users_pct_change |-> Some(Rat(0, 1)),
     titles_watched_pct_change |-> Some(Rat(0, 1)),
     previous_window |-> PreviousWindow(start, end),
     engagement |->
         [minutes_per_user_current |->
              Some(RoundDiv(current.total_watch_minutes, Max(current.active_users, 1))),
          minutes_per_user_previous |-> Some(0),
          minutes_per_user_pct_change |-> None],
     driver_deltas |-> EMPTY]

DegradedChanges(start, end, current) ==
    [total_watch_minutes_pct_change |-> None,
     active_users_pct_change |-> None,
     titles_watched_pct_change |-> None,
     previous_window |-> PreviousWindow(start, end),
     engagement |->
         [minutes_per_user_current |->
              Some(RoundDiv(current.total_watch_minutes, Max(current.active_users, 1))),
          minutes_per_user_previous |-> None,
          minutes_per_user_pct_change |-> None],
     driver_deltas |-> EMPTY]

FullChanges(cur_df, prev, cols, start, end, current, previous) ==
    LET current_mpu == Rat(current.total_watch_minutes, Max(current.active_users, 1))
        prev_mpu == Rat(previous.total_watch_minutes, Max(previous.active_users, 1))
    IN  [total_watch_minutes_pct_change |->
             _safe_pct_change(Rat(current.total_watch_minutes, 1),
                              Rat(previous.total_watch_minutes, 1)),
         active_users_pct_change |->
             _safe_pct_change(Rat(current.active_users, 1), Rat(previous.active_users, 1)),
         titles_watched_pct_change |->
             _safe_pct_change(Rat(current.titles_watched, 1), Rat(previous.titles_watched, 1)),
         previous_window |-> PreviousWindow(start, end),
         engagement |->
             [minutes_per_user_current |-> Some(RoundDiv(current_mpu.num, current_mpu.den)),
              minutes_per_user_previous |-> Some(RoundDiv(prev_mpu.num, prev_mpu.den)),
              minutes_per_user_pct_change |-> _safe_pct_change(current_mpu, prev_mpu)],
         driver_deltas |->
             [device_type |->
                  _delta_table(cur_df, cols, prev, cols, "device_type", DriverN, TRUE),
              location_country |->
                  _delta_table(cur_df, cols, prev, cols, "location_country", DriverN, TRUE),
              title |-> _delta_table(cur_df, cols, prev, cols, "title", DriverN, TRUE),
              genre_primary |->
                  _delta_table(cur_df, cols, prev, cols, "genre_primary", DriverN, TRUE)]]

\* evidence_builder.py:120-204, the build once the current slice is known to be non-empty
BuildNonEmpty(full_df, cols, cur_df, start, end, genre) ==
    LET current == _period_aggregates(cur_df, cols)
        window == PrevWindowSlice(full_df, start, end)
        prev == IF genre # ALL THEN GenreSlice(window, genre) ELSE window
    IN  IF current.raised # "none" THEN Raised(<<>>)
        ELSE IF genre # ALL /\ "genre_primary" \notin cols THEN Raised(<<>>)
        ELSE IF prev = <<>>
        THEN Returned(Packet(start, end, genre, current.value, EMPTY,
                             DegradedChanges(start, end, current.value),
                             NotePrevUnavailable), prev)
        ELSE LET previous == _period_aggregates(prev, cols)
             IN  Returned(Packet(start, end, genre, current.value, previous.value,
                                 FullChanges(cur_df, prev, cols, start, end,
                                             current.value, previous.value),
                                 ""), prev)

build_evidence_NoEmptyGuard(full_df, cols, cur_df, start, end, genre) ==
    BuildNonEmpty(full_df, cols, cur_df, start, end, genre)

build_evidence(full_df, cols, cur_df, start, end, genre) ==
    IF cur_df = <<>>
    THEN Returned(Packet(start, end, genre, EMPTY, EMPTY, EMPTY, NoteNoData), <<>>)
    ELSE BuildNonEmpty(full_df, cols, cur_df, start, end, genre)

----------------------------------------------------------------------------
(* dashboard.py: the sidebar filters and the rerun of the script *)

MinOf(S) == CHOOSE x \in S : \A y \in S : x <= y
MaxOf(S) == CHOOSE x \in S : \A y \in S : x >= y

min_date(df) == MinOf({Day(df[i].watch_date) : i \in DOMAIN df})
max_date(df) == MaxOf({Day(df[i].watch_date) : i \in DOMAIN df})
genre_options(df) == {ALL} \cup ({df[i].genre_primary : i \in DOMAIN df} \ {NULL})

DateSlice(df, start, end) ==
    Filter(df, [i \in DOMAIN df |->
        /\ Day(df[i].watch_date) >= start
        /\ Day(df[i].watch_date) <= end])

CurrentSlice(df, start, end, genre) ==
    IF genre # ALL THEN GenreSlice(DateSlice(df, start, end), genre)
    ELSE DateSlice(df, start, end)

\* One run of the script under the filters (start, end, genre)
Rerun(start, end, genre) ==
    \E cur \in {CurrentSlice(final_df, start, end, genre)} :
    \E built \in {build_evidence(final_df, columns, cur, start, end, genre)} :
        /\ start_date' = start
        /\ end_date' = end
        /\ selected_genre' = genre
        /\ filtered_df' = cur
        /\ prev_df' = built.prev_df
        /\ evidence' = built.packet
        /\ raised' = built.raised

SelectFilters ==
    \E start \in min_date(final_df)..max_date(final_df) :
    \E end \in start..max_date(final_df) :
    \E genre \in genre_options(final_df) :
        /\ Rerun(start, end, genre)
        /\ UNCHANGED <<final_df, columns>>
        /\ UNCHANGED <<ai_vars, fb_vars, dt_vars>>

Tables == UNION {[1..n -> WatchEvents] : n \in 1..MaxRows}

AIIdle ==
    /\ ai_op = "none"
    /\ models = <<>>
    /\ ai_pc = "idle"
    /\ ai_i = 1
    /\ attempts = <<>>
    /\ last_err = None
    /\ ai_text = None
    /\ model_used = None
    /\ ai_error = None
    /\ ai_summary = None
    /\ ai_explain = None

\* The review store before the first review, and no retrieval made yet
StoreIdle ==
    /\ reviews = <<>>
    /\ utcnow = 0
    /\ saved_args = <<>>
    /\ recent_limit = None
    /\ recent_rows = <<>>

\* No call of _delta_table on its own
DeltaIdle ==
    /\ dt_cur = <<>>
    /\ dt_prev = <<>>
    /\ dt_key = "title"
    /\ dt_n = None
    /\ dt_abs = TRUE
    /\ dt_rows = <<>>

\* The state after load_data and the first run of the script (full range, "All")
FirstRun(df, cols) ==
    \E start \in {min_date(df)} :
    \E end \in {max_date(df)} :
    \E cur \in {CurrentSlice(df, start, end, ALL)} :
    \E built \in {build_evidence(df, cols, cur, start, end, ALL)} :
        /\ final_df = df
        /\ columns = cols
        /\ start_date = start
        /\ end_date = end
        /\ selected_genre = ALL
        /\ filtered_df = cur
        /\ prev_df = built.prev_df
        /\ evidence = built.packet
        /\ raised = built.raised

Init ==
    /\ \E watch_df \in Tables :
       \E df \in {load_data(watch_df)} : FirstRun(df, Dimensions)
    /\ AIIdle
    /\ StoreIdle
    /\ DeltaIdle

Next == SelectFilters

Spec == Init /\ [][Next]_vars

----------------------------------------------------------------------------
(* build_evidence called on tables that lack optional dimension columns *)

CatalogGenres == {Catalog[m].genre_primary : m \in DOMAIN Catalog}

WatchEventsCols ==
    {e \in WatchEvents : e.user_id = UserNames[1] /\ e.watch_duration_minutes = 1000}

TablesCols == UNION {[1..n -> WatchEventsCols] : n \in 1..MaxRows}

\* The slice a caller can hand over: by calendar day, and by genre where the table has one
CallerSlice(df, cols, start, end, genre) ==
    IF genre # ALL /\ "genre_primary" \in cols
    THEN GenreSlice(DateSlice(df, start, end), genre)
    ELSE DateSlice(df, start, end)

CallBuildEvidence ==
    \E start \in min_date(final_df)..max_date(final_df) :
    \E end \in start..max_date(final_df) :
    \E genre \in {ALL} \cup CatalogGenres :
    \E cur \in {CallerSlice(final_df, columns, start, end, genre)} :
    \E built \in {build_evidence(final_df, columns, cur, start, end, genre)} :
        /\ start_date' = start
        /\ end_date' = end
        /\ selected_genre' = genre
        /\ filtered_df' = cur
        /\ prev_df' = built.prev_df
        /\ evidence' = built.packet
        /\ raised' = built.raised
        /\ UNCHANGED <<final_df, columns>>
        /\ UNCHANGED <<ai_vars, fb_vars, dt_vars>>

InitCols ==
    /\ \E watch_df \in TablesCols :
       \E cols \in SUBSET Dimensions :
       \E df \in {load_data(watch_df)} : FirstRun(df, cols)
    /\ AIIdle
    /\ StoreIdle
    /\ DeltaIdle

NextCols == CallBuildEvidence

SpecCols == InitCols /\ [][NextCols]_vars

----------------------------------------------------------------------------
(* ai_layer.py and the two buttons of the dashboard's AI tab *)

ModelOptions == {"gpt-5.2", "gpt-5.2-mini", "gpt-4o-mini"}
fallback_models == <<"gpt-5.2-mini", "gpt-4o-mini">>

SummaryKeys == {"headline", "summary_bullets", "key_changes", "next_checks"}
ExplainKeys == {"headline", "what_changed", "likely_drivers", "next_checks"}
ExpectedKeys(op) == IF op = "summary" THEN SummaryKeys ELSE ExplainKeys

\* What a successful call can return as message content: a JSON object (with the
\* keys asked for, or with other keys), JSON that is not an object, or no JSON.
Texts(op) ==
    { [kind |-> "object", keys |-> ExpectedKeys(op)],
      [kind |-> "object", keys |-> {"answer"}],
      [kind |-> "list", keys |-> {}],
      [kind |-> "string", keys |-> {}],
      [kind |-> "number", keys |-> {}],
      [kind |-> "null", keys |-> {}],
      [kind |-> "not_json", keys |-> {}] }

ServiceErrors == {"NotFoundError", "RateLimitError"}

Content == <<"...">>

\* ai_layer.py:31-35 / 79-82 and dashboard.py:338-347 / 383-393: the button starts
\* the request with the selected model first, then the fallbacks
StartRequest(op, model) ==
    /\ ai_pc \in {"idle", "done", "failed"}
    /\ ai_op' = op
    /\ models' = <<model>> \o fallback_models
    /\ ai_pc' = "calling"
    /\ ai_i' = 1
    /\ attempts' = <<>>
    /\ last_err' = None
    /\ ai_text' = None
    /\ model_used' = None
    /\ ai_error' = None
    /\ UNCHANGED <<ai_summary, ai_explain>>
    /\ UNCHANGED <<ev_vars, fb_vars, dt_vars>>

GenerateSummary == \E model \in ModelOptions : StartRequest("summary", model)

ExplainNow == \E model \in ModelOptions : StartRequest("explain", model)

CallSucceedsNoReturn ==
    /\ ai_pc = "calling"
    /\ ai_i <= Len(models)
    /\ \E text \in Texts(ai_op) :
        /\ attempts' = Append(attempts,
               [model |-> models[ai_i], ok |-> TRUE, text |-> Some(text), err |-> None])
        /\ ai_text' = Some(text)
        /\ model_used' = Some(models[ai_i])
    /\ ai_i' = ai_i + 1
    /\ UNCHANGED <<ai_op, models, ai_pc, last_err, ai_error, ai_summary, ai_explain>>
    /\ UNCHANGED <<ev_vars, fb_vars, dt_vars>>

\* One iteration of the loop of _call_with_fallback whose call succeeds
CallSucceeds ==
    /\ ai_pc = "calling"
    /\ ai_i <= Len(models)
    /\ \E text \in Texts(ai_op) :
        /\ attempts' = Append(attempts,
               [model |-> models[ai_i], ok |-> TRUE, text |-> Some(text), err |-> None])
        /\ ai_text' = Some(text)
        /\ model_used' = Some(models[ai_i])
    /\ ai_pc' = "parse"
    /\ UNCHANGED <<ai_op, models, ai_i, last_err, ai_error, ai_summary, ai_explain>>
    /\ UNCHANGED <<ev_vars, fb_vars, dt_vars>>

\* One iteration of the loop whose call raises
CallFails ==
    /\ ai_pc = "calling"
    /\ ai_i <= Len(models)
    /\ \E e \in ServiceErrors :
        /\ attempts' = Append(attempts,
               [model |-> models[ai_i], ok |-> FALSE, text |-> None,
                err |-> Some([type |-> e, model |-> models[ai_i]])])
        /\ last_err' = Some([type |-> e, model |-> models[ai_i]])
    /\ ai_i' = ai_i + 1
    /\ UNCHANGED <<ai_op, models, ai_pc, ai_text, model_used, ai_error,
                   ai_summary, ai_explain>>
    /\ UNCHANGED <<ev_vars, fb_vars, dt_vars>>

\* ai_layer.py:29: the loop is over; `raise last_err` (a TypeError when it is None)
RaiseLastErr ==
    /\ ai_pc = "calling"
    /\ ai_i > Len(models)
    /\ ai_error' = IF last_err = None
                   THEN Some([type |-> "TypeError", model |-> "-"])
                   ELSE last_err
    /\ ai_pc' = "failed"
    /\ UNCHANGED <<ai_op, models, ai_i, attempts, last_err, ai_text, model_used,
                   ai_summary, ai_explain>>
    /\ UNCHANGED <<ev_vars, fb_vars, dt_vars>>

\* json.loads(text) of ai_layer.py:66-74 / 115-123 followed by the item assignment
\* of line 76 / 125: the dict that is returned, or the exception
Fallback(op, text) ==
    IF op = "summary"
    THEN [headline |-> <<"AI Summary">>, summary_bullets |-> <<text>>,
          key_changes |-> <<>>, next_checks |-> <<>>]
    ELSE [headline |-> <<"AI Explanation">>, what_changed |-> <<text>>,
          likely_drivers |-> <<>>, next_checks |-> <<>>]

Annotate(out, m) ==
    [k \in DOMAIN out \cup {"_model_used"} |-> IF k = "_model_used" THEN <<m>> ELSE out[k]]

ParseAndAnnotate(op, text, m) ==
    CASE text.kind = "object" ->
             Return(Annotate([k \in text.keys |-> Content], m))
      [] text.kind = "not_json" ->
             Return(Annotate(Fallback(op, text), m))
      [] OTHER -> Raise("TypeError")

ParseResponse ==
    /\ ai_pc = "parse"
    /\ \E out \in {ParseAndAnnotate(ai_op, ai_text[1], model_used[1])} :
        IF out.raised = "none"
        THEN /\ ai_pc' = "done"
             /\ ai_summary' = IF ai_op = "summary" THEN Some(out.value) ELSE ai_summary
             /\ ai_explain' = IF ai_op = "explain" THEN Some(out.value) ELSE ai_explain
             /\ UNCHANGED ai_error
        ELSE /\ ai_pc' = "failed"
             /\ ai_error' = Some([type |-> out.raised, model |-> "-"])
             /\ UNCHANGED <<ai_summary, ai_explain>>
    /\ UNCHANGED <<ai_op, models, ai_i, attempts, last_err, ai_text, model_used>>
    /\ UNCHANGED <<ev_vars, fb_vars, dt_vars>>

InitAI ==
    /\ FirstRun(load_data(<<[user_id |-> UserNames[1], movie_id |-> 1, watch_date |-> 0,
                             watch_duration_minutes |-> 1000,
                             device_type |-> "tv", location_country |-> "US"]>>),
                Dimensions)
    /\ AIIdle
    /\ StoreIdle
    /\ DeltaIdle

NextAI ==
    \/ GenerateSummary
    \/ ExplainNow
    \/ CallSucceeds
    \/ CallFails
    \/ RaiseLastErr
    \/ ParseResponse

SpecAI == InitAI /\ [][NextAI]_vars

----------------------------------------------------------------------------
(* _call_with_fallback called on its own, with any list of models *)

MaxModels == 2

ModelLists == UNION {[1..n -> ModelOptions] : n \in 0..MaxModels}

\* ai_layer.py:12-15: the call starts with last_err = None; a new call can start
\* once the previous one has returned ("parse") or raised ("failed")
CallWithFallback ==
    /\ ai_pc \in {"idle", "parse", "failed"}
    /\ ai_op' = "direct"
    /\ \E ms \in ModelLists : models' = ms
    /\ ai_pc' = "calling"
    /\ ai_i' = 1
    /\ attempts' = <<>>
    /\ last_err' = None
    /\ ai_text' = None
    /\ model_used' = None
    /\ ai_error' = None
    /\ UNCHANGED <<ai_summary, ai_explain>>
    /\ UNCHANGED <<ev_vars, fb_vars, dt_vars>>

NextFallback ==
    \/ CallWithFallback
    \/ CallSucceeds
    \/ CallFails
    \/ RaiseLastErr

SpecFallback == InitAI /\ [][NextFallback]_vars

----------------------------------------------------------------------------
(* feedback_store.py and the feedback tab of the dashboard *)

MaxReviews == 3
MaxClock == 2
MaxComment == 2
MaxLimit == 4

RecentLimit == 8

\* The slider of the feedback tab
Ratings == 1..5

\* A comment is a sequence of characters; " " stands for every whitespace character
Chars == {" ", "a"}
Comments == UNION {[1..n -> Chars] : n \in 0..MaxComment}

IsSpace(ch) == ch = " "

RECURSIVE LStrip(_)
LStrip(c) == IF c # <<>> /\ IsSpace(Head(c)) THEN LStrip(Tail(c)) ELSE c

RECURSIVE RStrip(_)
RStrip(c) ==
    IF c # <<>> /\ IsSpace(c[Len(c)]) THEN RStrip(SubSeq(c, 1, Len(c) - 1)) ELSE c

\* str.strip()
strip(c) == RStrip(LStrip(c))

\* INTEGER PRIMARY KEY AUTOINCREMENT: one more than the largest id ever used (no
\* row is ever deleted, so that is the id of the last row)
NextId(table) == IF table = <<>> THEN 1 ELSE table[Len(table)].id + 1

\* The table after save_review(rating, comment) run at time now
save_review(table, now, rating, comment) ==
    Append(table, [id |-> NextId(table), created_at |-> now,
                   rating |-> rating, comment |-> strip(comment)])

\* ORDER BY id ASC: the k-th row is the one with k - 1 smaller ids
OrderByIdAsc(table) ==
    [k \in 1..Len(table) |->
        CHOOSE r \in {table[j] : j \in 1..Len(table)} :
            Cardinality({j \in 1..Len(table) : table[j].id < r.id}) = k - 1]

\* ORDER BY id DESC: the k-th row is the one with k - 1 larger ids
OrderByIdDesc(table) ==
    [k \in 1..Len(table) |->
        CHOOSE r \in {table[j] : j \in 1..Len(table)} :
            Cardinality({j \in 1..Len(table) : table[j].id > r.id}) = k - 1]

\* LIMIT ?: the first limit rows (every row when limit is negative)
Limit(rows, limit) ==
    IF limit < 0 \/ limit >= Len(rows) THEN rows ELSE SubSeq(rows, 1, limit)

SelectColumns(rows) ==
    [k \in 1..Len(rows) |-> <<rows[k].created_at, rows[k].rating, rows[k].comment>>]

get_recent_reviews_Oldest(table, limit) ==
    SelectColumns(Limit(OrderByIdAsc(table), limit))

get_recent_reviews(table, limit) ==
    SelectColumns(Limit(OrderByIdDesc(table), limit))

\* dashboard.py:430-436 and 441: the Submit Review button with the slider at rating
\* and the text area holding comment; the run then lists the recent reviews
SubmitReview ==
    /\ Len(reviews) < MaxReviews
    /\ \E rating \in Ratings :
       \E comment \in Comments :
       \E now \in {t \in {utcnow, utcnow + 1} : t <= MaxClock} :
           /\ utcnow' = now
           /\ IF strip(comment) = <<>>
              THEN UNCHANGED <<reviews, saved_args>>
              ELSE /\ reviews' = save_review(reviews, now, rating, comment)
                   /\ saved_args' = Append(saved_args, <<rating, comment>>)
    /\ recent_limit' = Some(RecentLimit)
    /\ recent_rows' = get_recent_reviews(reviews', RecentLimit)
    /\ UNCHANGED <<ev_vars, ai_vars, dt_vars>>

\* get_recent_reviews(limit) called with any limit
GetRecentReviews ==
    /\ \E limit \in 0..MaxLimit :
           /\ recent_limit' = Some(limit)
           /\ recent_rows' = get_recent_reviews(reviews, limit)
    /\ UNCHANGED <<reviews, utcnow, saved_args>>
    /\ UNCHANGED <<ev_vars, ai_vars, dt_vars>>

\* init_db() on a new deployment: the table exists and is empty
InitStore == InitAI

NextStore ==
    \/ SubmitReview
    \/ GetRecentReviews

SpecStore == InitStore /\ [][NextStore]_vars

----------------------------------------------------------------------------
(* _delta_table called on its own *)

MaxDeltaRows == 2
MaxN == 2

\* One user, one day; durations that are not missing (4 is 0.004 minutes)
DeltaEvents ==
    {e \in WatchEvents : /\ e.user_id = UserNames[1]
                         /\ e.watch_date = 0
                         /\ e.watch_duration_minutes # NAN}

DeltaTables == UNION {[1..n -> DeltaEvents] : n \in 0..MaxDeltaRows}

DeltaKeys == {"title", "genre_primary"}

\* _delta_table(cur_df, prev_df, key, n=n, sort_by_abs=sort_by_abs) on the two slices
CallDeltaTable ==
    /\ \E key \in DeltaKeys :
       \E n \in 0..MaxN :
       \E sort_by_abs \in BOOLEAN :
           /\ dt_key' = key
           /\ dt_n' = Some(n)
           /\ dt_abs' = sort_by_abs
           /\ dt_rows' = _delta_table(dt_cur, Dimensions, dt_prev, Dimensions,
                                      key, n, sort_by_abs)
    /\ UNCHANGED <<dt_cur, dt_prev>>
    /\ UNCHANGED <<ev_vars, ai_vars, fb_vars>>

\* Two slices of a table load_data produced, and no call made yet
InitDelta ==
    /\ FirstRun(load_data(<<[user_id |-> UserNames[1], movie_id |-> 1, watch_date |-> 0,
                             watch_duration_minutes |-> 1000,
                             device_type |-> "tv", location_country |-> "US"]>>),
                Dimensions)
    /\ AIIdle
    /\ StoreIdle
    /\ \E cur_watch \in DeltaTables :
       \E prev_watch \in DeltaTables :
           /\ dt_cur = load_data(cur_watch)
           /\ dt_prev = load_data(prev_watch)
    /\ dt_key = "title"
    /\ dt_n = None
    /\ dt_abs = TRUE
    /\ dt_rows = <<>>

NextDelta == CallDeltaTable

SpecDelta == InitDelta /\ [][NextDelta]_vars

----------------------------------------------------------------------------
(* Properties of the evidence builder *)

Built == raised = "none" /\ filtered_df # <<>>
FullPacket == Built /\ prev_df # <<>>
Degraded == Built /\ prev_df = <<>>

CurWindowDays == (end_date - start_date) + 1
PrevEndDay == start_date - 1
PrevStartDay == PrevEndDay - (CurWindowDays - 1)

\* The rows of final_df whose timestamp is in the window build_evidence compares against
InPrevBounds(row) ==
    /\ row.watch_date >= PrevStartDay * TicksPerDay
    /\ row.watch_date <= PrevEndDay * TicksPerDay

KeySum(df, key, v) == SumMinutes(Filter(df, [i \in DOMAIN df |-> df[i][key] = v]))
KeyValues(df, key) == {df[i][key] : i \in DOMAIN df} \ {NULL}

BreakdownField(d) ==
    CASE d = "genre_primary" -> "top_genres"
      [] d = "title" -> "top_titles"
      [] d = "device_type" -> "watch_by_device"
      [] d = "location_country" -> "watch_by_country"

RECURSIVE SumBreakdown(_)
SumBreakdown(rows) ==
    IF rows = <<>> THEN 0
    ELSE Head(rows).watch_duration_minutes + SumBreakdown(Tail(rows))

\* C1: with a non-empty current slice, the packet's previous_window ends the day
\* before start_date, starts windowDays - 1 days earlier and reports days =
\* windowDays = (end_date - start_date) + 1, in the degraded and in the full packet,
\* and every row of the previous slice lies on a day of that window.
C1_PreviousWindow ==
    Built =>
        LET pw == evidence.changes.previous_window
        IN  /\ pw.days = CurWindowDays
            /\ pw.end_date = Str(PrevEndDay)
            /\ pw.start_date = Str(PrevStartDay)
            /\ PrevEndDay - PrevStartDay + 1 = end_date - start_date + 1
            /\ \A i \in DOMAIN prev_df :
                   /\ Day(prev_df[i].watch_date) >= PrevStartDay
                   /\ Day(prev_df[i].watch_date) <= PrevEndDay

C1_Witness ==
    /\ FullPacket
    /\ evidence.changes.previous_window.days = 2
    /\ evidence.note = ""

\* C2: the previous slice holds exactly the rows of the full table whose watch day
\* is a calendar day of [prevStart, prevEnd] (and that pass the genre selector),
\* the way the dashboard bounds the current slice.
C2_PrevSliceByCalendarDay ==
    Built => prev_df = CurrentSlice(final_df, PrevStartDay, PrevEndDay, selected_genre)

\* C3: the previous slice is the rows of the window restricted by the genre
\* selector: every row has the selected genre when it is not "All", and with "All"
\* no row of the window (null genre included) is removed.
C3_PrevGenreFilter ==
    Built =>
        /\ selected_genre # ALL =>
               \A i \in DOMAIN prev_df : prev_df[i].genre_primary = selected_genre
        /\ prev_df = Filter(final_df, [i \in DOMAIN final_df |->
               /\ InPrevBounds(final_df[i])
               /\ selected_genre = ALL \/ final_df[i].genre_primary = selected_genre])

C3_Witness ==
    /\ Built
    /\ selected_genre # ALL
    /\ \E i \in DOMAIN final_df :
           /\ InPrevBounds(final_df[i])
           /\ final_df[i].genre_primary # selected_genre

\* C4: an empty current slice yields exactly the packet {filters, {}, {}, {}, note
\* "No data available for the selected filters."} and no exception, whatever the
\* full table holds.
C4_EmptyCurrentPacket ==
    filtered_df = <<>> =>
        /\ raised = "none"
        /\ evidence =
               [filters |-> [start_date |-> Str(start_date), end_date |-> Str(end_date),
                             genre |-> selected_genre],
                current_period |-> <<>>,
                previous_period |-> <<>>,
                changes |-> <<>>,
                note |-> "No data available for the selected filters."]

C4_Witness ==
    /\ filtered_df = <<>>
    /\ raised = "none"
    /\ \E i \in DOMAIN final_df : InPrevBounds(final_df[i])

\* C5: a non-empty current slice never raises; with an empty previous slice the
\* packet has previous_period = {}, the three top-line percent changes null,
\* driver_deltas = {}, an engagement block with only minutes_per_user_current set,
\* the previous window used and the "comparison unavailable" note; with both
\* slices non-empty the note is empty.
C5_DegradedPacket ==
    /\ filtered_df # <<>> => raised = "none"
    /\ Degraded =>
           /\ evidence.previous_period = <<>>
           /\ evidence.changes.total_watch_minutes_pct_change = None
           /\ evidence.changes.active_users_pct_change = None
           /\ evidence.changes.titles_watched_pct_change = None
           /\ evidence.changes.driver_deltas = <<>>
           /\ evidence.changes.engagement.minutes_per_user_current # None
           /\ evidence.changes.engagement.minutes_per_user_previous = None
           /\ evidence.changes.engagement.minutes_per_user_pct_change = None
           /\ evidence.changes.previous_window =
                  [start_date |-> Str(PrevStartDay), end_date |-> Str(PrevEndDay),
                   days |-> CurWindowDays]
           /\ evidence.note =
                  "Previous period comparison unavailable (no data in the prior time window)."
    /\ FullPacket => evidence.note = "" /\ evidence.previous_period # <<>>

C5_Witness ==
    /\ Degraded
    /\ start_date > min_date(final_df)
    /\ evidence.current_period.total_watch_minutes > 0

PctRounded(pct, c, p) ==
    IF p = 0 THEN pct = None
    ELSE pct = Some(RoundRat2(Rat((c - p) * 100, p)))

\* C6: every percent change of the packet (the three top-line changes and the
\* pct_change of every delta row) is null iff its previous value is exactly 0 and
\* otherwise equals (current - previous) / previous * 100 rounded to 2 decimals.
C6_PctChangeRounded ==
    FullPacket =>
        LET cur == evidence.current_period
            prev == evidence.previous_period
            ch == evidence.changes
        IN  /\ PctRounded(ch.total_watch_minutes_pct_change,
                          cur.total_watch_minutes, prev.total_watch_minutes)
            /\ PctRounded(ch.active_users_pct_change, cur.active_users, prev.active_users)
            /\ PctRounded(ch.titles_watched_pct_change,
                          cur.titles_watched, prev.titles_watched)
            /\ \A d \in Dimensions :
               \A i \in DOMAIN ch.driver_deltas[d] :
                   LET r == ch.driver_deltas[d][i]
                   IN  PctRounded(r.pct_change, KeySum(filtered_df, d, r.name),
                                  KeySum(prev_df, d, r.name))

C8_AbsentDimensionNonFatal ==
    filtered_df # <<>> =>
        /\ raised = "none"
        /\ \A d \in Dimensions \ columns :
               /\ evidence.current_period[BreakdownField(d)] = <<>>
               /\ prev_df # <<>> => evidence.changes.driver_deltas[d] = <<>>

\* C9: rows with a null value in the grouped dimension form a group of their own,
\* so that with at most N groups the sums of a breakdown add up to
\* total_watch_minutes.
C9_NullGroupKept ==
    Built =>
        \A d \in Dimensions :
            Cardinality({filtered_df[i][d] : i \in DOMAIN filtered_df}) <= TopN =>
                Round2(SumBreakdown(evidence.current_period[BreakdownField(d)]))
                    = evidence.current_period.total_watch_minutes

----------------------------------------------------------------------------
(* Properties of the summarization fallback *)

SessionResult == IF ai_op = "summary" THEN ai_summary ELSE ai_explain

\* C10: the models are attempted strictly in list order; the only call that can
\* have succeeded is the last one made, so nothing is attempted after a success
\* and every earlier identifier was attempted and failed; _call_with_fallback
\* returns the text and the identifier of that call, and the returned summary or
\* explanation carries exactly that identifier in _model_used.
C10_FirstSuccessWins ==
    /\ Len(attempts) <= Len(models)
    /\ \A k \in DOMAIN attempts :
           /\ attempts[k].model = models[k]
           /\ attempts[k].ok => k = Len(attempts)
    /\ model_used # None =>
           /\ attempts # <<>>
           /\ attempts[Len(attempts)].ok
           /\ model_used = Some(models[Len(attempts)])
           /\ ai_text = attempts[Len(attempts)].text
           /\ \A k \in 1..(Len(attempts) - 1) : ~attempts[k].ok
    /\ ai_pc = "done" =>
           /\ model_used # None
           /\ SessionResult # None
           /\ SessionResult[1]["_model_used"] = model_used

C10_Witness ==
    /\ ai_pc = "done"
    /\ Len(attempts) = 3
    /\ models[2] = models[1]
    /\ SessionResult[1]["_model_used"] = <<"gpt-4o-mini">>

----------------------------------------------------------------------------
(* Properties of the fallback loop and of the response handling *)

AllAttemptedAndFailed ==
    /\ Len(attempts) = Len(models)
    /\ \A k \in 1..Len(attempts) : attempts[k].model = models[k] /\ ~attempts[k].ok

\* C11: a request surfaces a failure only when every model of the list has been
\* attempted and has failed, and the error surfaced is then the error of the last
\* model attempted: for any list of models, the empty one included, an error from
\* the service and no other error.
C11_FailureOnlyAfterAllFailed ==
    ai_pc = "failed" =>
        /\ AllAttemptedAndFailed
        /\ ai_error # None
        /\ ai_error[1].type \in ServiceErrors
        /\ Len(attempts) > 0 => ai_error = attempts[Len(attempts)].err

FirstSection(op) == IF op = "summary" THEN "summary_bullets" ELSE "what_changed"

\* C12: whatever text the successful model call returned (a JSON object, JSON that
\* is not an object, or text that is not JSON), the operation returns, without
\* raising, a structure whose keys are the operation's fixed key set and
\* _model_used; a response that is not a JSON object is recovered into the
\* fallback structure, whose first section has the raw text as its single bullet.
C12_ResponseAlwaysStructured ==
    (ai_op \in {"summary", "explain"} /\ model_used # None /\ ai_pc \in {"done", "failed"}) =>
        /\ ai_pc = "done"
        /\ SessionResult # None
        /\ DOMAIN SessionResult[1] = ExpectedKeys(ai_op) \cup {"_model_used"}
        /\ SessionResult[1]["_model_used"] = model_used
        /\ ai_text[1].kind # "object" =>
               SessionResult[1][FirstSection(ai_op)] = <<ai_text[1]>>

----------------------------------------------------------------------------
(* Properties of the review store *)

Min(a, b) == IF a <= b THEN a ELSE b

\* Every row is what its save_review call was given, in the order of the calls
StoredAsSaved ==
    /\ Len(reviews) = Len(saved_args)
    /\ \A k \in 1..Len(reviews) :
           /\ reviews[k].rating = saved_args[k][1]
           /\ reviews[k].comment = strip(saved_args[k][2])
           /\ reviews[k].rating \in 1..5

\* The last retrieval returned the min(N, number saved) newest records, newest first
RecentAreNewest ==
    recent_limit # None =>
        /\ Len(recent_rows) = Min(recent_limit[1], Len(saved_args))
        /\ \A k \in 1..Len(recent_rows) :
               recent_rows[k] = <<reviews[Len(reviews) + 1 - k].created_at,
                                  saved_args[Len(saved_args) + 1 - k][1],
                                  strip(saved_args[Len(saved_args) + 1 - k][2])>>

\* A step neither changes nor removes a record that is already stored
EarlierRecordsKept ==
    /\ Len(reviews') >= Len(reviews)
    /\ \A k \in 1..Len(reviews) : reviews'[k] = reviews[k]

\* C13: the store is append-only with recency-ordered retrieval: after any
\* sequence of saves, get_recent_reviews(N) returns exactly the min(N, number
\* saved) most recently saved records, newest first, each with the rating and the
\* stripped comment it was saved with; a save never changes or removes an earlier
\* record; every stored rating is in 1..5.
C13_AppendOnlyRecency ==
    /\ [](StoredAsSaved /\ RecentAreNewest)
    /\ [][EarlierRecordsKept]_vars

C13_Witness ==
    /\ Len(reviews) = 3
    /\ recent_limit = Some(2)
    /\ Len(recent_rows) = 2
    /\ recent_rows[1][2] # recent_rows[2][2]
    /\ saved_args[3][2] # strip(saved_args[3][2])
    /\ recent_rows[1][3] = strip(saved_args[3][2])

----------------------------------------------------------------------------
(* Properties of _delta_table *)

DeltaCalled == dt_n # None

\* The exact sums and delta of a dimension value over the two slices
RawCurrent(v) == KeySum(dt_cur, dt_key, v)
RawPrevious(v) == KeySum(dt_prev, dt_key, v)
RawDelta(v) == RawCurrent(v) - RawPrevious(v)

DeltaSortKey(v) == IF dt_abs THEN Abs(RawDelta(v)) ELSE RawDelta(v)

AllDeltaKeys == KeyValues(dt_cur, dt_key) \cup KeyValues(dt_prev, dt_key)

ReturnedNames == {dt_rows[i].name : i \in 1..Len(dt_rows)}

\* C14: _delta_table returns at most n rows; in the default mode they are the rows
\* with the n largest absolute deltas, in non-increasing order of |delta|; in the
\* alternate mode they are in descending order of signed delta; no row left out has
\* a strictly larger sort key than a row returned.
C14_TopNBySortKey ==
    DeltaCalled =>
        /\ Len(dt_rows) <= dt_n[1]
        /\ Len(dt_rows) = Min(dt_n[1], Cardinality(AllDeltaKeys))
        /\ Cardinality(ReturnedNames) = Len(dt_rows)
        /\ ReturnedNames \subseteq AllDeltaKeys
        /\ \A i \in 1..(Len(dt_rows) - 1) :
               /\ DeltaSortKey(dt_rows[i].name) >= DeltaSortKey(dt_rows[i + 1].name)
               /\ IF dt_abs
                  THEN Abs(dt_rows[i].delta) >= Abs(dt_rows[i + 1].delta)
                  ELSE dt_rows[i].delta >= dt_rows[i + 1].delta
        /\ \A v \in AllDeltaKeys \ ReturnedNames :
               \A i \in 1..Len(dt_rows) :
                   DeltaSortKey(v) <= DeltaSortKey(dt_rows[i].name)

\* A drop returned ahead of a smaller gain that n leaves out
C14_Witness ==
    /\ DeltaCalled
    /\ dt_abs
    /\ dt_n = Some(1)
    /\ Len(dt_rows) = 1
    /\ dt_rows[1].delta < 0
    /\ \E v \in AllDeltaKeys \ ReturnedNames :
           RawDelta(v) > 0 /\ RawDelta(v) < Abs(RawDelta(dt_rows[1].name))

\* h (in hundredths) is x (in thousandths) rounded to 2 decimals
IsRounded2(h, x) == Abs(10 * h - x) <= 5

\* C15 as stated: in every row returned, the reported delta equals the reported
\* current minus the reported previous, and pct_change is null exactly when the
\* reported previous is 0.0.
C15_ReportedConsistent ==
    DeltaCalled =>
        \A i \in 1..Len(dt_rows) :
            /\ dt_rows[i].delta = dt_rows[i].current - dt_rows[i].previous
            /\ dt_rows[i].pct_change = None <=> dt_rows[i].previous = 0

\* C15, amended: current, previous and delta are each the exact value rounded to 2
\* decimals, so the reported delta is within 0.01 of the reported current minus the
\* reported previous; pct_change is null exactly when the exact previous sum is 0
\* (the reported previous is then 0.0, but not conversely).
C15_RoundedIndependently ==
    DeltaCalled =>
        \A i \in 1..Len(dt_rows) :
            /\ IsRounded2(dt_rows[i].current, RawCurrent(dt_rows[i].name))
            /\ IsRounded2(dt_rows[i].previous, RawPrevious(dt_rows[i].name))
            /\ IsRounded2(dt_rows[i].delta, RawDelta(dt_rows[i].name))
            /\ Abs(dt_rows[i].delta - (dt_rows[i].current - dt_rows[i].previous)) <= 1
            /\ dt_rows[i].pct_change = None <=> RawPrevious(dt_rows[i].name) = 0
            /\ dt_rows[i].pct_change = None => dt_rows[i].previous = 0

\* A row whose three rounded values do not add up, and a row with a reported
\* previous of 0.0 and a pct_change
C15_Witness ==
    /\ DeltaCalled
    /\ \E i \in 1..Len(dt_rows) :
           dt_rows[i].delta # dt_rows[i].current - dt_rows[i].previous
    /\ \E i \in 1..Len(dt_rows) :
           dt_rows[i].previous = 0 /\ dt_rows[i].pct_change # None

====
